---- MODULE Spec2Model ----
(***************************************************************************)
(* A model of the DNS proxy of src/part1.py, src/part2.py, src/part2b.py   *)
(* and src/part3.py: the listener (datagram_received), the UDP relay task  *)
(* (handle_query) and the DoH task (handle_doh_query) of each variant,     *)
(* driven by an asyncio event loop: one action is one run of a callback or *)
(* of a task between two suspension points.                                *)
(***************************************************************************)
EXTENDS Integers, Sequences, FiniteSets, TLC

VARIABLES
    variant,      \* which source file runs: "part1", "part2", "part2b", "part3"
    doh,          \* BasicDNSProxy.doh (the --doh flag; part1 has none)
    debug,        \* BasicDNSProxy.debug (the --debug flag)
    session,      \* BasicDNSProxy.session of part3: "None" or "Session"
    nTasks,       \* number of forwarding tasks created so far
    data,         \* data[t]: the client datagram handed to task t
    addr,         \* addr[t]: the client address handed to task t
    pc,           \* pc[t]: where task t is suspended
    attempt,      \* attempt[t]: the loop variable of `for attempt in range(3)`
    timer,        \* timer[t]: seconds spent in the current await
    on_response,  \* on_response[t]: the future of the task's closure cell
    endpoints,    \* endpoints[t]: attempts whose upstream endpoint is open
    reqs,         \* reqs[t]: number of HTTPS requests the current DoH attempt awaits
    init_id,      \* init_id[t]: init_msg.id of part2b's handle_doh_query
    sent,         \* sent[t]: log of what task t transmitted upstream
    accepted,     \* accepted[t]: log of upstream datagrams that completed a future
    replies,      \* replies[t]: log of datagrams task t sent to its client,
                  \*   each with the upstream response it was made from
                  \*   and what shutdown was when it was sent
    outcome,      \* outcome[t]: log of how each attempt of task t ended
    output,       \* content of output.json
    shutdown,     \* main: "running", "signalled" (stop_event set), "closed"
    born,         \* born[t]: what shutdown was when task t was created
    wire,         \* the datagram handed to DNSQueryParser (see Wire)
    parser,       \* where the constructor is: "off", "new", "loop", "name",
                  \*   "parsed", or the exception that left it
    query_head,   \* DNSQueryParser.query_head: the four counts of the header
    query_body,   \* DNSQueryParser.query_body: the bytes after the header
    frames,       \* the calls of parse_name in progress: posn and name of each
    ret,          \* what the call of parse_name that returned last returned
    posn,         \* posn of parse_questions / parse_records
    section,      \* the section parse() is in: 1 question .. 4 additional
    records,      \* the four lists built so far: qd, an, ns, ar
    trail         \* the length bytes parse_name read for the current name

vars == <<variant, doh, debug, session, nTasks, data, addr, pc, attempt, timer,
          on_response, endpoints, reqs, init_id, sent, accepted, replies,
          outcome, output, shutdown, born, wire, parser, query_head, query_body,
          frames, ret, posn, section, records, trail>>

----------------------------------------------------------------------------
(* Bounds of the model *)

MaxTasks == 2
MaxWait == 4
(* Largest transaction id of an inbound query (see Inbound). *)
MaxId == 2

(* Program constants *)

(* Most questions an inbound query carries (see Inbound). *)
MaxQuestions == 2

ATTEMPTS == 3
TIMEOUT == 3
DEBUG_SLEEP == 3
BACKOFF == 1

Tasks == 1 .. MaxTasks

Variants == {"part1", "part2", "part2b", "part3"}

(* The runs modelled: part1 has no DoH mode; handle_query of part2 and of  *)
(* part2b is the text of part1's, so their UDP-relay runs are part1's;     *)
(* part3 in UDP-relay mode differs by the session datagram_received makes. *)
Modes == { <<"part1", FALSE>>, <<"part3", FALSE>>,
           <<"part2", TRUE>>, <<"part2b", TRUE>>, <<"part3", TRUE>> }

----------------------------------------------------------------------------
(* DNS messages.  A message is kept as its decoded view: the transaction   *)
(* id (the first two bytes), the QR and RA flag bits, the question section *)
(* and the answer records; dec tells what a decoder makes of its bytes.    *)
(* The question section is kept as it is on the wire: each question is the *)
(* labels of its name and the number of trailing labels the encoder wrote  *)
(* as a compression pointer to an earlier name instead of in full.         *)

Q(l, p) == [labels |-> l, ptr |-> p]

NameA == <<"a", "x">>

NameB == <<"b", "x">>

(* The trailing k labels of a name. *)
Suffix(name, k) == SubSeq(name, Len(name) - k + 1, Len(name))

(* dns.message.from_wire on a question section: the names, pointers        *)
(* followed.                                                               *)
from_wire_question(qd) == [i \in DOMAIN qd |-> qd[i].labels]

(* Name.to_wire with the renderer's compression table: the longest suffix  *)
(* of names[i] that an earlier name of the section ends with is written as *)
(* a pointer.                                                              *)
Compressed(names, i) ==
    LET known == {k \in 1 .. Len(names[i]) :
                    \E j \in 1 .. i - 1 :
                        /\ k <= Len(names[j])
                        /\ Suffix(names[j], k) = Suffix(names[i], k)}
    IN IF known = {} THEN 0 ELSE CHOOSE k \in known : \A m \in known : m <= k

(* Message.to_wire on a question section: every name is encoded anew. *)
to_wire_question(names) == [i \in DOMAIN names |-> Q(names[i], Compressed(names, i))]

NoMsg == [id |-> 0, qr |-> 0, ra |-> 0, qd |-> <<>>, an |-> <<>>, dec |-> "none"]

Msg(i, r, a, q, n, d) == [id |-> i, qr |-> r, ra |-> a, qd |-> q, an |-> n, dec |-> d]

(* The datagrams the listener may receive, each with the address it comes *)
(* from: a query with one question, with two (both names in full), with    *)
(* none, and bytes that are no DNS message.                                *)
Inbound ==
    { <<Msg(1, 0, 0, <<Q(NameA, 0)>>, <<>>, "ok"), "c1">>,
      <<Msg(2, 0, 0, <<Q(NameA, 0), Q(NameB, 0)>>, <<>>, "ok"), "c2">>,
      <<Msg(1, 0, 0, <<>>, <<>>, "ok"), "c2">>,
      <<Msg(2, 0, 0, <<>>, <<>>, "malformed"), "c1">> }

(* The datagrams that arrive in a run.  handle_query relays a datagram     *)
(* without reading it, so in UDP-relay mode the two that decode as a query *)
(* with questions stand for all; handle_doh_query decodes the datagram,    *)
(* and in DoH mode all four arrive.                                        *)
Arrivals ==
    IF doh THEN Inbound
           ELSE {in \in Inbound : in[1].dec = "ok" /\ in[1].qd # <<>>}

(* What the upstream may answer to query q: the answer proper, an answer   *)
(* bearing another transaction id, bytes that do not decode, an answer     *)
(* holding a record whose type is absent from DNS_TYPES, and the answer of *)
(* a server that offers no recursion (RA clear).                           *)
AnswerKinds == {"good", "wrongid", "malformed", "unktype", "norecursion"}

(* A transaction id no client query and no DoH request carries. *)
WrongId == MaxId + 1

UpstreamAnswer(q, kind) ==
    CASE kind = "good"      -> Msg(q.id, 1, 1, q.qd, <<"rr">>, "ok")
      [] kind = "wrongid"   -> Msg(WrongId, 1, 1, q.qd, <<"rr">>, "ok")
      [] kind = "malformed" -> Msg(q.id, 1, 1, <<>>, <<>>, "malformed")
      [] kind = "unktype"   -> Msg(q.id, 1, 1, q.qd, <<"rr65">>, "unktype")
      [] kind = "norecursion" -> Msg(q.id, 1, 0, q.qd, <<"rr">>, "ok")

----------------------------------------------------------------------------
(* DNSQueryParser.__init__: decode the message, then write output.json.    *)
(* The constructor raises when the bytes do not decode, and on a record    *)
(* type that DNS_TYPES lacks (parse_type, parse_dns_section: KeyError).    *)

Summary(m) == [qd |-> from_wire_question(m.qd), an |-> m.an]

NoSummary == [qd |-> <<>>, an |-> <<"none">>]

ParserRaises(m) == m.dec # "ok"

write_to_file_mixed(m) == [qd |-> output.qd, an |-> Summary(m).an]

(* json.dump of the four section lists into output.json, opened with "w". *)
write_to_file(m) == Summary(m)

(* What becomes of write_to_file: the summary is written, or open() raises *)
(* OSError (no permission, no descriptor left) and the constructor with it. *)
SinkResults == {"written", "oserror"}

----------------------------------------------------------------------------
(* Futures *)

NoFuture == [state |-> "none", val |-> NoMsg]

PendingFuture == [state |-> "pending", val |-> NoMsg]

Done_never(f) == FALSE

(* future.done(): the future has a result or was cancelled. *)
Done(f) == f.state \in {"result", "cancelled"}

----------------------------------------------------------------------------
(* Helpers on the per-task state *)

Set(f, t, v) == [f EXCEPT ![t] = v]

Log(f, t, e) == [f EXCEPT ![t] = Append(@, e)]

Ended(t) == pc[t] \in {"done", "failed"}

MoreAttempts_off_by_one(t) == attempt[t] + 1 <= ATTEMPTS

(* `for attempt in range(3)`: whether the loop has an attempt after this one. *)
MoreAttempts(t) == attempt[t] + 1 < ATTEMPTS

(* An entry of the outcome log: how the current attempt of task t ended,   *)
(* after how many seconds of waiting when a deadline ended it, and with    *)
(* which HTTP status when a response did.                                  *)
Outcome(t, how, waited, status) ==
    [attempt |-> attempt[t], how |-> how, waited |-> waited, status |-> status]

(* The configuration never changes after construction. *)
ConfigUnchanged == UNCHANGED <<variant, doh, debug>>

(* No datagram is decoded byte by byte while the proxy runs: see SpecParse. *)
ParserIdle ==
    UNCHANGED <<wire, parser, query_head, query_body, frames, ret, posn, section,
                records, trail>>

(* stop_event.set makes main runnable, and main runs before the callbacks  *)
(* scheduled after it.  A callback that was ready before runs first; it    *)
(* neither reads nor writes what the signal handler does, so such a run is *)
(* the run in which it precedes the signal.  The one step kept between the *)
(* handler and main is the listener reading a datagram that has arrived    *)
(* (see datagram_received).                                                *)
NotStopping == shutdown # "signalled"

----------------------------------------------------------------------------
(* DNSQueryParser, byte by byte.  part1 decodes the message by hand        *)
(* (parse, parse_questions, parse_records, parse_name, parse_type); part2, *)
(* part2b and part3 hand it to dns.message.from_wire and list the rrsets.  *)
(* One action is one step of the decoder; a call of parse_name is a frame  *)
(* of `frames`.                                                            *)

(* Wire encodings. *)

U16(n) == <<n \div 256, n % 256>>

(* A compression pointer to offset off of the message. *)
Ptr(off) == <<192 + off \div 256, off % 256>>

RECURSIVE Labels(_)
Labels(ls) == IF ls = <<>> THEN <<>> ELSE <<Len(ls[1])>> \o ls[1] \o Labels(Tail(ls))

(* A name written in full: its labels and the zero label. *)
Full(ls) == Labels(ls) \o <<0>>

(* n bytes b. *)
Fill(n, b) == [i \in 1 .. n |-> b]

(* n pointers starting at offset base of the message: the first points to  *)
(* offset first, each other one to the pointer before it.                  *)
Chain(base, first, n) ==
    [j \in 1 .. 2 * n |->
        LET i == (j + 1) \div 2
            v == IF i = 1 THEN first ELSE base + 2 * (i - 2) IN
        IF j % 2 = 1 THEN 192 + v \div 256 ELSE v % 256]

(* The labels "a", "b", "x" in ASCII. *)
La == <<97>>

Lb == <<98>>

Lx == <<120>>

(* An entry of the question section: the name it stands for, the bytes the *)
(* name is written with, the type.                                         *)
QD(owner, wname, type) == [owner |-> owner, wname |-> wname, type |-> type]

(* A resource record: the name it stands for, the bytes the name is        *)
(* written with, the type, RDLENGTH, the RDATA bytes present, and the      *)
(* length of the RDATA once the names in it are written in full.           *)
RR(owner, wname, type, rdlength, rdata, full) ==
    [owner |-> owner, wname |-> wname, type |-> type, rdlength |-> rdlength,
     rdata |-> rdata, full |-> full]

QBytes(q) == q.wname \o U16(q.type) \o U16(1)

RBytes(r) ==
    r.wname \o U16(r.type) \o U16(1) \o <<0, 0, 0, 60>> \o U16(r.rdlength) \o r.rdata

RECURSIVE QSection(_)
QSection(qs) == IF qs = <<>> THEN <<>> ELSE QBytes(qs[1]) \o QSection(Tail(qs))

RECURSIVE RSection(_)
RSection(rs) == IF rs = <<>> THEN <<>> ELSE RBytes(rs[1]) \o RSection(Tail(rs))

(* A datagram: whether its 12 header bytes are all there, the four counts  *)
(* of the header, the sections, bytes that follow them, the number of body *)
(* bytes kept (-1: all), and whether the whole is a well-formed message    *)
(* whose names and records are the ones the sections stand for.            *)
Wire(tag, head, counts, qd, an, ns, ar, tail, cut, rfc) ==
    [tag |-> tag, head |-> head, counts |-> counts, qd |-> qd,
     rr |-> <<an, ns, ar>>, tail |-> tail, cut |-> cut, rfc |-> rfc]

NoWire == Wire("none", FALSE, <<0, 0, 0, 0>>, <<>>, <<>>, <<>>, <<>>, <<>>, -1, FALSE)

(* query[12:] *)
Body(w) ==
    LET all == QSection(w.qd) \o RSection(w.rr[1]) \o RSection(w.rr[2])
                  \o RSection(w.rr[3]) \o w.tail IN
    IF w.cut < 0 THEN all ELSE SubSeq(all, 1, w.cut)

(* The A record 4 bytes long. *)
Addr == <<10, 0, 0, 1>>

(* Offset in the message of the first record after one question whose     *)
(* name takes n bytes.                                                     *)
After(n) == 12 + n + 4

(* The datagrams decoded.  Offset 12 is the question's name. *)
Samples ==
    { (* the record's name is a pointer to the question's name *)
      Wire("pointer", TRUE, <<1, 1, 0, 0>>,
           <<QD(<<La, Lx>>, Full(<<La, Lx>>), 1)>>,
           <<RR(<<La, Lx>>, Ptr(12), 1, 4, Addr, 4)>>, <<>>, <<>>, <<>>, -1, TRUE),
      (* the same message with every name in full *)
      Wire("full", TRUE, <<1, 1, 0, 0>>,
           <<QD(<<La, Lx>>, Full(<<La, Lx>>), 1)>>,
           <<RR(<<La, Lx>>, Full(<<La, Lx>>), 1, 4, Addr, 4)>>, <<>>, <<>>, <<>>, -1, TRUE),
      (* a label, then a pointer to the rest of the name; a record in each  *)
      (* section, the last one an OPT record                                *)
      Wire("label+pointer", TRUE, <<1, 1, 1, 1>>,
           <<QD(<<La, Lx>>, Full(<<La, Lx>>), 1)>>,
           <<RR(<<Lb, Lx>>, Labels(<<Lb>>) \o Ptr(14), 1, 4, Addr, 4)>>,
           <<RR(<<Lx>>, Ptr(14), 2, 4, Labels(<<La>>) \o Ptr(14), 5)>>,
           <<RR(<<>>, <<0>>, 41, 0, <<>>, 0)>>, <<>>, -1, TRUE),
      (* the same message with every name in full *)
      Wire("label+pointer full", TRUE, <<1, 1, 1, 1>>,
           <<QD(<<La, Lx>>, Full(<<La, Lx>>), 1)>>,
           <<RR(<<Lb, Lx>>, Full(<<Lb, Lx>>), 1, 4, Addr, 4)>>,
           <<RR(<<Lx>>, Full(<<Lx>>), 2, 5, Full(<<La, Lx>>), 5)>>,
           <<RR(<<>>, <<0>>, 41, 0, <<>>, 0)>>, <<>>, -1, TRUE),
      (* a query for the root; the record's name is a label and a pointer   *)
      (* to the root name of the question                                   *)
      Wire("pointer to root", TRUE, <<1, 1, 0, 0>>,
           <<QD(<<>>, <<0>>, 2)>>,
           <<RR(<<Lb>>, Labels(<<Lb>>) \o Ptr(12), 1, 4, Addr, 4)>>, <<>>, <<>>, <<>>, -1, TRUE),
      (* the same message with every name in full *)
      Wire("root full", TRUE, <<1, 1, 0, 0>>,
           <<QD(<<>>, <<0>>, 2)>>,
           <<RR(<<Lb>>, Full(<<Lb>>), 1, 4, Addr, 4)>>, <<>>, <<>>, <<>>, -1, TRUE),
      (* a CNAME whose target is written with a pointer: RDLENGTH 4, and 5  *)
      (* bytes in full                                                      *)
      Wire("cname", TRUE, <<1, 1, 0, 0>>,
           <<QD(<<La, Lx>>, Full(<<La, Lx>>), 1)>>,
           <<RR(<<La, Lx>>, Ptr(12), 5, 4, Labels(<<Lb>>) \o Ptr(14), 5)>>,
           <<>>, <<>>, <<>>, -1, TRUE),
      (* a type DNS_TYPES does not list (HTTPS, 65) *)
      Wire("type 65", TRUE, <<1, 0, 0, 0>>,
           <<QD(<<La, Lx>>, Full(<<La, Lx>>), 65)>>, <<>>, <<>>, <<>>, <<>>, -1, TRUE),
      (* no question and no record *)
      Wire("empty", TRUE, <<0, 0, 0, 0>>, <<>>, <<>>, <<>>, <<>>, <<>>, -1, TRUE),
      (* fewer than 12 bytes *)
      Wire("short header", FALSE, <<>>, <<>>, <<>>, <<>>, <<>>, <<>>, -1, FALSE),
      (* the question's name is a pointer forward, to a name after the      *)
      (* question                                                           *)
      Wire("forward pointer", TRUE, <<1, 0, 0, 0>>,
           <<QD(<<La>>, Ptr(After(2)), 1)>>, <<>>, <<>>, <<>>, Full(<<La>>), -1, FALSE),
      (* the question's name is a pointer to itself *)
      Wire("self pointer", TRUE, <<1, 0, 0, 0>>,
           <<QD(<<>>, Ptr(12), 1)>>, <<>>, <<>>, <<>>, <<>>, -1, FALSE),
      (* a pointer into the header, offset 11 *)
      Wire("header pointer", TRUE, <<1, 0, 0, 0>>,
           <<QD(<<>>, Ptr(11), 1)>>, <<>>, <<>>, <<>>, <<0>>, -1, FALSE),
      (* a length byte with top bits 01, and the 64 bytes it announces *)
      Wire("label 01", TRUE, <<1, 0, 0, 0>>,
           <<QD(<<>>, <<64>> \o Fill(64, 97) \o <<0>>, 1)>>, <<>>, <<>>, <<>>, <<>>, -1, FALSE),
      (* a length byte with top bits 10, and the 128 bytes it announces *)
      Wire("label 10", TRUE, <<1, 0, 0, 0>>,
           <<QD(<<>>, <<128>> \o Fill(128, 97) \o <<0>>, 1)>>, <<>>, <<>>, <<>>, <<>>, -1, FALSE),
      (* a length byte with top bits 01 and too few bytes after it *)
      Wire("label 01 short", TRUE, <<1, 0, 0, 0>>,
           <<QD(<<>>, <<64>> \o Fill(3, 97) \o <<0>>, 1)>>, <<>>, <<>>, <<>>, <<>>, -1, FALSE),
      (* a label that is no UTF-8 *)
      Wire("label 0xFF", TRUE, <<1, 0, 0, 0>>,
           <<QD(<<>>, <<1, 255, 0>>, 1)>>, <<>>, <<>>, <<>>, <<>>, -1, FALSE),
      (* the second record's name is reached through 129 pointers: its own  *)
      (* and the 128 in the first record's RDATA                            *)
      Wire("129 hops", TRUE, <<1, 2, 0, 0>>,
           <<QD(<<La>>, Full(<<La>>), 1)>>,
           <<RR(<<La>>, Ptr(12), 16, 256, Chain(After(3) + 12, 12, 128), 256),
             RR(<<La>>, Ptr(After(3) + 12 + 2 * 127), 1, 4, Addr, 4)>>,
           <<>>, <<>>, <<>>, -1, FALSE),
      (* names that run into the end of the datagram: after a label, inside *)
      (* a label, and a datagram that ends with its header                  *)
      Wire("no zero label", TRUE, <<1, 0, 0, 0>>,
           <<QD(<<La, Lx>>, Full(<<La, Lx>>), 1)>>, <<>>, <<>>, <<>>, <<>>, 4, FALSE),
      Wire("cut label", TRUE, <<1, 0, 0, 0>>,
           <<QD(<<La, <<120, 120, 120>>>>, Full(<<La, <<120, 120, 120>>>>), 1)>>,
           <<>>, <<>>, <<>>, <<>>, 4, FALSE),
      Wire("no body", TRUE, <<1, 0, 0, 0>>, <<>>, <<>>, <<>>, <<>>, <<>>, -1, FALSE),
      (* the header counts two records, the datagram has one *)
      Wire("missing record", TRUE, <<1, 2, 0, 0>>,
           <<QD(<<La, Lx>>, Full(<<La, Lx>>), 1)>>,
           <<RR(<<La, Lx>>, Ptr(12), 1, 4, Addr, 4)>>, <<>>, <<>>, <<>>, -1, FALSE),
      (* the datagram ends before RDLENGTH, and inside the type *)
      Wire("cut record", TRUE, <<1, 1, 0, 0>>,
           <<QD(<<La>>, Full(<<La>>), 1)>>,
           <<RR(<<La>>, Ptr(12), 1, 4, Addr, 4)>>, <<>>, <<>>, <<>>, 7 + 9, FALSE),
      Wire("cut type", TRUE, <<1, 0, 0, 0>>,
           <<QD(<<La>>, Full(<<La>>), 1)>>, <<>>, <<>>, <<>>, <<>>, 4, FALSE),
      (* RDLENGTH announces more RDATA than the datagram has *)
      Wire("short rdata", TRUE, <<1, 1, 0, 0>>,
           <<QD(<<La>>, Full(<<La>>), 1)>>,
           <<RR(<<La>>, Ptr(12), 1, 4, <<10>>, 4)>>, <<>>, <<>>, <<>>, -1, FALSE) }

NoRet == [set |-> FALSE, posn |-> 0, name |-> <<>>]

NoRecords == <<<<>>, <<>>, <<>>, <<>>>>

----------------------------------------------------------------------------
(* State after construction: BasicDNSProxy.__init__ and main. *)

Init ==
    /\ variant \in Variants
    /\ doh \in BOOLEAN
    /\ <<variant, doh>> \in Modes
    /\ debug \in BOOLEAN
    /\ session = "None"
    /\ nTasks = 0
    /\ data = [t \in Tasks |-> NoMsg]
    /\ addr = [t \in Tasks |-> "none"]
    /\ pc = [t \in Tasks |-> "idle"]
    /\ attempt = [t \in Tasks |-> 0]
    /\ timer = [t \in Tasks |-> 0]
    /\ on_response = [t \in Tasks |-> NoFuture]
    /\ endpoints = [t \in Tasks |-> {}]
    /\ reqs = [t \in Tasks |-> 0]
    /\ init_id = [t \in Tasks |-> 0]
    /\ sent = [t \in Tasks |-> <<>>]
    /\ accepted = [t \in Tasks |-> <<>>]
    /\ replies = [t \in Tasks |-> <<>>]
    /\ outcome = [t \in Tasks |-> <<>>]
    /\ output = NoSummary
    /\ shutdown = "running"
    /\ born = [t \in Tasks |-> "none"]
    /\ wire = NoWire
    /\ parser = "off"
    /\ query_head = <<0, 0, 0, 0>>
    /\ query_body = <<>>
    /\ frames = <<>>
    /\ ret = NoRet
    /\ posn = 0
    /\ section = 1
    /\ records = NoRecords
    /\ trail = <<>>

----------------------------------------------------------------------------
(* BasicDNSProxy.datagram_received: create one task per inbound datagram. *)
(* part3 creates the session here, whatever the mode.  The listener reads  *)
(* datagrams until main closes its transport.                              *)

SessionAfterDatagram ==
    IF variant = "part3" /\ session = "None" THEN "Session" ELSE session

ListenerFree_awaits_task == \A t \in Tasks : pc[t] \in {"idle", "done", "failed", "cancelled"}

(* `_ = asyncio.create_task(...)`: the task is created, not awaited, so    *)
(* the listener takes the next datagram whatever the tasks it created are  *)
(* doing.                                                                  *)
ListenerFree == TRUE

datagram_received(d, a) ==
    /\ <<d, a>> \in Arrivals
    /\ ListenerFree
    /\ shutdown # "closed"
    /\ nTasks < MaxTasks
    /\ nTasks' = nTasks + 1
    /\ session' = SessionAfterDatagram
    /\ data' = Set(data, nTasks + 1, d)
    /\ addr' = Set(addr, nTasks + 1, a)
    /\ pc' = Set(pc, nTasks + 1, "ready")
    /\ born' = Set(born, nTasks + 1, shutdown)
    /\ ConfigUnchanged
    /\ ParserIdle
    /\ UNCHANGED shutdown
    /\ UNCHANGED <<attempt, timer, on_response, endpoints, reqs, init_id, sent,
                   accepted, replies, outcome, output>>

----------------------------------------------------------------------------
(* handle_query: the UDP relay task. *)

(* Top of the loop body: a fresh future, then await create_datagram_endpoint. *)
BeginUdpAttempt(t, k) ==
    /\ attempt' = Set(attempt, t, k)
    /\ on_response' = Set(on_response, t, PendingFuture)
    /\ pc' = Set(pc, t, "creating")
    /\ timer' = Set(timer, t, 0)

(* The task starts: with --debug it sleeps first. *)
handle_query_start(t) ==
    /\ pc[t] = "ready"
    /\ ~doh
    /\ IF debug
          THEN /\ pc' = Set(pc, t, "sleep")
               /\ timer' = Set(timer, t, 0)
               /\ UNCHANGED <<attempt, on_response>>
          ELSE BeginUdpAttempt(t, 0)
    /\ ConfigUnchanged
    /\ ParserIdle
    /\ NotStopping
    /\ UNCHANGED <<shutdown, born>>
    /\ UNCHANGED <<session, nTasks, data, addr, endpoints, reqs, init_id, sent,
                   accepted, replies, outcome, output>>

(* asyncio.sleep(3) of --debug is over. *)
handle_query_wake(t) ==
    /\ pc[t] = "sleep"
    /\ ~doh
    /\ timer[t] = DEBUG_SLEEP
    /\ BeginUdpAttempt(t, 0)
    /\ ConfigUnchanged
    /\ ParserIdle
    /\ NotStopping
    /\ UNCHANGED <<shutdown, born>>
    /\ UNCHANGED <<session, nTasks, data, addr, endpoints, reqs, init_id, sent,
                   accepted, replies, outcome, output>>

CloseEndpoint_previous(t) == endpoints[t] \ {attempt[t] - 1}

CloseEndpoint_noop(t) == endpoints[t]

(* `finally: if transport: transport.close()`: the endpoints of task t     *)
(* left open once the one `transport` names, that of the current attempt   *)
(* if it was created, is closed.                                           *)
CloseEndpoint(t) == endpoints[t] \ {attempt[t]}

(* What transport.sendto(data) transmits to the upstream. *)
UdpQueryPayload(t) == data[t]

(* create_datagram_endpoint returned: transport.sendto(data), then the task *)
(* awaits wait_for(on_response, timeout=3).                                *)
endpoint_created(t) ==
    /\ pc[t] = "creating"
    /\ endpoints' = Set(endpoints, t, endpoints[t] \cup {attempt[t]})
    /\ sent' = Log(sent, t, [attempt |-> attempt[t], payload |-> UdpQueryPayload(t)])
    /\ pc' = Set(pc, t, "waiting")
    /\ timer' = Set(timer, t, 0)
    /\ ConfigUnchanged
    /\ ParserIdle
    /\ NotStopping
    /\ UNCHANGED <<shutdown, born>>
    /\ UNCHANGED <<session, nTasks, data, addr, attempt, on_response, reqs,
                   init_id, accepted, replies, outcome, output>>

(* create_datagram_endpoint raised OSError: no except clause matches; the  *)
(* finally clause closes `transport`, which is the previous attempt's (and *)
(* closed already) or None; the exception ends the task.                   *)
endpoint_failed(t) ==
    /\ pc[t] = "creating"
    /\ pc' = Set(pc, t, "failed")
    /\ outcome' = Log(outcome, t, Outcome(t, "oserror", 0, 0))
    /\ ConfigUnchanged
    /\ ParserIdle
    /\ NotStopping
    /\ UNCHANGED <<shutdown, born>>
    /\ UNCHANGED <<session, nTasks, data, addr, attempt, timer, on_response,
                   endpoints, reqs, init_id, sent, accepted, replies, output>>

(* Upstream.datagram_received on an open endpoint k of task t.  The method *)
(* closes over the variable on_response of handle_query, so it completes   *)
(* the future that variable holds now, unless that future is done.         *)
Upstream_datagram_received(t, k, kind) ==
    /\ k \in endpoints[t]
    /\ IF Done(on_response[t])
          THEN UNCHANGED <<on_response, accepted>>
          ELSE /\ on_response' = Set(on_response, t,
                    [state |-> "result", val |-> UpstreamAnswer(data[t], kind)])
               /\ accepted' = Log(accepted, t,
                    [endpoint |-> k, attempt |-> attempt[t],
                     msg |-> UpstreamAnswer(data[t], kind)])
    /\ ConfigUnchanged
    /\ ParserIdle
    /\ NotStopping
    /\ UNCHANGED <<shutdown, born>>
    /\ UNCHANGED <<session, nTasks, data, addr, pc, attempt, timer, endpoints,
                   reqs, init_id, sent, replies, outcome, output>>

UdpReply_latest_addr(t, response) ==
    [attempt |-> attempt[t], payload |-> response, addr |-> addr[nTasks],
     status |-> 0, upstream |-> response, listener |-> shutdown]

(* What transport_.sendto(response, addr) sends to the client. *)
UdpReply(t, response) ==
    [attempt |-> attempt[t], payload |-> response, addr |-> addr[t],
     status |-> 0, upstream |-> response, listener |-> shutdown]

(* wait_for returned the response.  DNSQueryParser(response) comes first:  *)
(* when it raises, in decoding or in write_to_file, no except clause       *)
(* matches, finally closes the endpoint and the task ends without a reply. *)
(* Otherwise output.json is written, the response is sent to the client,   *)
(* and the loop breaks.                                                    *)
handle_query_response(t) ==
    /\ pc[t] = "waiting"
    /\ on_response[t].state = "result"
    /\ \E sink \in SinkResults :
       LET response == on_response[t].val IN
          IF ParserRaises(response) \/ sink = "oserror"
             THEN /\ pc' = Set(pc, t, "failed")
                  /\ outcome' = Log(outcome, t,
                        Outcome(t, IF ParserRaises(response) THEN "decode_error"
                                                            ELSE "sink_error", 0, 0))
                  /\ UNCHANGED <<replies, output>>
             ELSE /\ pc' = Set(pc, t, "done")
                  /\ output' = write_to_file(response)
                  /\ replies' = Log(replies, t, UdpReply(t, response))
                  /\ outcome' = Log(outcome, t, Outcome(t, "reply", 0, 0))
    /\ endpoints' = Set(endpoints, t, CloseEndpoint(t))
    /\ timer' = Set(timer, t, 0)
    /\ ConfigUnchanged
    /\ ParserIdle
    /\ NotStopping
    /\ UNCHANGED <<shutdown, born>>
    /\ UNCHANGED <<session, nTasks, data, addr, attempt, on_response,
                   reqs, init_id, sent, accepted>>

(* wait_for timed out: the future is cancelled, TimeoutError is caught,    *)
(* finally closes the endpoint, and the loop goes on to the next attempt   *)
(* (up to its await) or ends after the third.                              *)
handle_query_timeout(t) ==
    /\ pc[t] = "waiting"
    /\ on_response[t].state = "pending"
    /\ timer[t] = TIMEOUT
    /\ endpoints' = Set(endpoints, t, CloseEndpoint(t))
    /\ outcome' = Log(outcome, t, Outcome(t, "timeout", timer[t], 0))
    /\ IF MoreAttempts(t)
          THEN BeginUdpAttempt(t, attempt[t] + 1)
          ELSE /\ pc' = Set(pc, t, "done")
               /\ on_response' = Set(on_response, t, [state |-> "cancelled", val |-> NoMsg])
               /\ UNCHANGED <<attempt, timer>>
    /\ ConfigUnchanged
    /\ ParserIdle
    /\ NotStopping
    /\ UNCHANGED <<shutdown, born>>
    /\ UNCHANGED <<session, nTasks, data, addr, reqs, init_id, sent, accepted,
                   replies, output>>

----------------------------------------------------------------------------
(* handle_doh_query: the DoH task of part2, part2b and part3. *)

(* Code before the debug sleep: part2b decodes the query and takes its     *)
(* first question (IndexError when there is none); part3 decodes the query *)
(* for its id; part2 does nothing.                                         *)
RaisesBeforeSleep(d) ==
    CASE variant = "part2b" -> d.dec # "ok" \/ Len(d.qd) = 0
      [] variant = "part3"  -> d.dec # "ok"
      [] OTHER              -> FALSE

(* Code between the sleep and the loop: make_query_params of part2 and     *)
(* part3 decodes the query; part2b sets init_msg.id = 0 and encodes.       *)
RaisesBeforeLoop(d) ==
    CASE variant = "part2b" -> FALSE
      [] OTHER              -> d.dec # "ok"

(* The requests of one attempt: part2b issues one (the whole query, id 0,  *)
(* as the dns parameter); part2 and part3 issue one per question (name and *)
(* type parameters).                                                       *)
RequestCount(t) == IF variant = "part2b" THEN 1 ELSE Len(data[t].qd)

DohRequest(t, i) ==
    LET names == from_wire_question(data[t].qd) IN
    IF variant = "part2b"
       THEN Msg(0, data[t].qr, data[t].ra, to_wire_question(names), <<>>, "ok")
       ELSE Msg(0, 0, 0, to_wire_question(<<names[i]>>), <<>>, "ok")

(* init_msg.id of part2b, which alone keeps the decoded query: the id of   *)
(* the query at first, 0 from the encoding of the request on, and the id   *)
(* again (`init_msg.id = id`) once a response was decoded.                 *)
InitMsgId(t, v) == IF variant = "part2b" THEN Set(init_id, t, v) ELSE init_id

(* requests.get(..., timeout=3) of part3; part2 and part2b pass no timeout. *)
HasDeadline == variant = "part3"

build_dns_reply_upstream_id(t, body) ==
    Msg(body.id, 1, 1, to_wire_question(from_wire_question(data[t].qd)), body.an, "ok")

build_dns_reply_upstream_flags(t, body) ==
    Msg(data[t].id, body.qr, body.ra,
        to_wire_question(from_wire_question(data[t].qd)), body.an, "ok")

(* The reply handle_doh_query builds from the client query and a decoded   *)
(* upstream response: make_response(query, recursion_available=True) keeps *)
(* the id and the question section of the query and sets QR and RA; the    *)
(* answer records are the upstream's.  part2b builds it from init_msg      *)
(* after `init_msg.id = id`; part2 and part3 decode the client bytes anew. *)
(* The reply is to_wire of that message: the questions are the decoded     *)
(* names of the query, encoded anew.                                       *)
build_dns_reply(t, body) ==
    Msg(data[t].id, 1, 1, to_wire_question(from_wire_question(data[t].qd)),
        body.an, "ok")

DohReply(t, r) ==
    [attempt |-> attempt[t], payload |-> build_dns_reply(t, r.body),
     addr |-> addr[t], status |-> r.status, upstream |-> r.body,
     listener |-> shutdown]

(* `for r in responses`: the number of leading responses whose body the    *)
(* parser accepts; the loop stops at the first it rejects.                 *)
RECURSIVE LeadingDecoded(_)
LeadingDecoded(rs) ==
    IF rs = <<>> \/ ParserRaises(Head(rs).body)
       THEN 0
       ELSE 1 + LeadingDecoded(Tail(rs))

(* Top of the loop body up to its await.  With no request to wait for      *)
(* (part2, part3 and a query without question) gather returns at once,     *)
(* nothing is sent and the loop breaks.                                    *)
BeginDohAttempt(t, k) ==
    /\ attempt' = Set(attempt, t, k)
    /\ timer' = Set(timer, t, 0)
    /\ IF RequestCount(t) = 0
          THEN /\ pc' = Set(pc, t, "done")
               /\ outcome' = Log(outcome, t,
                     [attempt |-> k, how |-> "no_request", waited |-> 0, status |-> 0])
               /\ UNCHANGED <<reqs, sent>>
          ELSE /\ pc' = Set(pc, t, "dohwait")
               /\ reqs' = Set(reqs, t, RequestCount(t))
               /\ sent' = [sent EXCEPT ![t] = @ \o
                     [i \in 1 .. RequestCount(t) |->
                        [attempt |-> k, payload |-> DohRequest(t, i)]]]
               /\ UNCHANGED outcome

(* The code between the debug sleep and the first await of the loop. *)
EnterDohLoop(t) ==
    IF RaisesBeforeLoop(data[t])
       THEN /\ pc' = Set(pc, t, "failed")
            /\ timer' = Set(timer, t, 0)
            /\ UNCHANGED <<attempt, reqs, sent, outcome, init_id>>
       ELSE /\ BeginDohAttempt(t, 0)
            /\ init_id' = InitMsgId(t, 0)

handle_doh_query_start(t) ==
    /\ pc[t] = "ready"
    /\ doh
    /\ IF RaisesBeforeSleep(data[t])
          THEN /\ pc' = Set(pc, t, "failed")
               /\ UNCHANGED <<attempt, timer, reqs, sent, outcome, init_id>>
          ELSE IF debug
                  THEN /\ pc' = Set(pc, t, "sleep")
                       /\ timer' = Set(timer, t, 0)
                       /\ init_id' = InitMsgId(t, data[t].id)
                       /\ UNCHANGED <<attempt, reqs, sent, outcome>>
                  ELSE EnterDohLoop(t)
    /\ ConfigUnchanged
    /\ ParserIdle
    /\ NotStopping
    /\ UNCHANGED <<shutdown, born>>
    /\ UNCHANGED <<session, nTasks, data, addr, on_response, endpoints,
                   accepted, replies, output>>

handle_doh_query_wake(t) ==
    /\ pc[t] = "sleep"
    /\ doh
    /\ timer[t] = DEBUG_SLEEP
    /\ EnterDohLoop(t)
    /\ ConfigUnchanged
    /\ ParserIdle
    /\ NotStopping
    /\ UNCHANGED <<shutdown, born>>
    /\ UNCHANGED <<session, nTasks, data, addr, on_response, endpoints,
                   accepted, replies, output>>

(* What the upstream may answer to an HTTPS request: a status and a body.  *)
(* The code never reads the status, so a body that does not decode is      *)
(* modelled with status 200 only.                                          *)
HttpAnswers ==
    { <<200, "good">>, <<200, "malformed">>, <<200, "norecursion">>, <<500, "good">> }

(* The response of request i when the upstream answers it with a. *)
HttpResponse(t, i, a) ==
    [status |-> a[1], body |-> UpstreamAnswer(DohRequest(t, i), a[2])]

(* Every worker thread returned and gather hands the task the responses    *)
(* rs, in request order.  Each is decoded in turn, output.json is          *)
(* rewritten, a reply is built and sent; the HTTP status is never read.    *)
(* A body the parser rejects ends the task: no except clause matches.      *)
(* So does a failure of write_to_file, here that of the first response     *)
(* decoded.                                                                *)
handle_doh_query_responses(t, as) ==
    /\ pc[t] = "dohwait"
    /\ DOMAIN as = 1 .. reqs[t]
    /\ \E sink \in SinkResults :
       LET rs == [i \in 1 .. reqs[t] |-> HttpResponse(t, i, as[i])]
           decoded == LeadingDecoded(rs)
           n == IF sink = "oserror" THEN 0 ELSE decoded
           all == n = Len(rs)
           status == rs[IF all THEN n ELSE n + 1].status
           how == IF all THEN "reply"
                  ELSE IF decoded = 0 THEN "decode_error"
                  ELSE IF sink = "oserror" THEN "sink_error" ELSE "decode_error" IN
          /\ replies' = [replies EXCEPT ![t] = @ \o
                [i \in 1 .. n |-> DohReply(t, rs[i])]]
          /\ output' = IF n = 0 THEN output ELSE write_to_file(rs[n].body)
          /\ init_id' = IF n = 0 THEN init_id ELSE InitMsgId(t, data[t].id)
          /\ pc' = Set(pc, t, IF all THEN "done" ELSE "failed")
          /\ outcome' = Log(outcome, t, Outcome(t, how, 0, status))
    /\ reqs' = Set(reqs, t, 0)
    /\ timer' = Set(timer, t, 0)
    /\ ConfigUnchanged
    /\ ParserIdle
    /\ NotStopping
    /\ UNCHANGED <<shutdown, born>>
    /\ UNCHANGED <<session, nTasks, data, addr, attempt, on_response, endpoints,
                   sent, accepted>>

(* The exceptions of requests and the classes each belongs to:             *)
(* ConnectTimeout derives from both ConnectionError and Timeout.           *)
ExcClasses(exc) ==
    CASE exc = "ConnectionError" -> {"ConnectionError", "RequestException"}
      [] exc = "ConnectTimeout"  -> {"ConnectTimeout", "ConnectionError", "Timeout",
                                     "RequestException"}
      [] exc = "ReadTimeout"     -> {"ReadTimeout", "Timeout", "RequestException"}

(* The except clauses in order.  `except asyncio.TimeoutError or           *)
(* requests.exceptions.Timeout` names the value of the `or` expression,    *)
(* which is asyncio.TimeoutError alone.  part2 has the first clause only.  *)
ExceptClauses ==
    IF variant = "part2"
       THEN << [class |-> "TimeoutError", handler |-> "timeout"] >>
       ELSE << [class |-> "TimeoutError", handler |-> "timeout"],
               [class |-> "ConnectionError", handler |-> "connection"] >>

(* The handler that catches exc: the first clause naming a class of exc. *)
Handler(exc) ==
    LET hits == {i \in DOMAIN ExceptClauses : ExceptClauses[i].class \in ExcClasses(exc)}
    IN IF hits = {} THEN "uncaught"
       ELSE ExceptClauses[CHOOSE i \in hits : \A j \in hits : i <= j].handler

(* The exceptions a pending request may raise now: a connection failure at *)
(* any time, a timeout once the request's deadline (part3) is reached.     *)
PossibleExceptions(t) ==
    {"ConnectionError"} \cup
    (IF HasDeadline /\ timer[t] >= TIMEOUT THEN {"ConnectTimeout", "ReadTimeout"} ELSE {})

(* `if attempt < 2: await asyncio.sleep(1)` of the connection clause. *)
SleepsBeforeRetry(t) == attempt[t] < 2

(* The wait a deadline ended, as the outcome log keeps it. *)
Waited(t, exc) == IF exc = "ConnectionError" THEN 0 ELSE timer[t]

(* A request raises: gather passes the exception to the task.  The timeout *)
(* clause goes straight to the next attempt; the connection clause sleeps  *)
(* one second first unless this was the last attempt; an exception no      *)
(* clause catches ends the task.                                           *)
handle_doh_query_exception(t, exc) ==
    /\ pc[t] = "dohwait"
    /\ reqs[t] > 0
    /\ exc \in PossibleExceptions(t)
    /\ LET h == Handler(exc)
           last == ~MoreAttempts(t) IN
          /\ outcome' = Log(outcome, t, Outcome(t, exc, Waited(t, exc), 0))
          /\ CASE h = "uncaught" ->
                    /\ pc' = Set(pc, t, "failed")
                    /\ reqs' = Set(reqs, t, 0)
                    /\ timer' = Set(timer, t, 0)
                    /\ UNCHANGED <<attempt, sent>>
               [] h = "connection" /\ SleepsBeforeRetry(t) ->
                    /\ pc' = Set(pc, t, "backoff")
                    /\ reqs' = Set(reqs, t, 0)
                    /\ timer' = Set(timer, t, 0)
                    /\ UNCHANGED <<attempt, sent>>
               [] OTHER ->
                    IF last
                       THEN /\ pc' = Set(pc, t, "done")
                            /\ reqs' = Set(reqs, t, 0)
                            /\ timer' = Set(timer, t, 0)
                            /\ UNCHANGED <<attempt, sent>>
                       ELSE /\ attempt' = Set(attempt, t, attempt[t] + 1)
                            /\ timer' = Set(timer, t, 0)
                            /\ pc' = Set(pc, t, "dohwait")
                            /\ reqs' = Set(reqs, t, RequestCount(t))
                            /\ sent' = [sent EXCEPT ![t] = @ \o
                                  [j \in 1 .. RequestCount(t) |->
                                     [attempt |-> attempt[t] + 1,
                                      payload |-> DohRequest(t, j)]]]
    /\ ConfigUnchanged
    /\ ParserIdle
    /\ NotStopping
    /\ UNCHANGED <<shutdown, born>>
    /\ UNCHANGED <<session, nTasks, data, addr, on_response, endpoints, init_id,
                   accepted, replies, output>>

(* asyncio.sleep(1) after a connection failure is over: next attempt. *)
handle_doh_query_backoff(t) ==
    /\ pc[t] = "backoff"
    /\ timer[t] = BACKOFF
    /\ attempt' = Set(attempt, t, attempt[t] + 1)
    /\ timer' = Set(timer, t, 0)
    /\ pc' = Set(pc, t, "dohwait")
    /\ reqs' = Set(reqs, t, RequestCount(t))
    /\ sent' = [sent EXCEPT ![t] = @ \o
          [j \in 1 .. RequestCount(t) |->
             [attempt |-> attempt[t] + 1, payload |-> DohRequest(t, j)]]]
    /\ ConfigUnchanged
    /\ ParserIdle
    /\ NotStopping
    /\ UNCHANGED <<shutdown, born>>
    /\ UNCHANGED <<session, nTasks, data, addr, on_response, endpoints, init_id,
                   accepted, replies, outcome, output>>

----------------------------------------------------------------------------
(* main: shutdown. *)

(* SIGINT: the loop runs the signal handler, stop_event.set, which makes   *)
(* main runnable.                                                          *)
sigint ==
    /\ shutdown = "running"
    /\ shutdown' = "signalled"
    /\ ConfigUnchanged
    /\ ParserIdle
    /\ UNCHANGED born
    /\ UNCHANGED <<session, nTasks, data, addr, pc, attempt, timer, on_response,
                   endpoints, reqs, init_id, sent, accepted, replies, outcome,
                   output>>

(* Task t is among asyncio.all_tasks(): created and not finished. *)
Pending_none(t) == FALSE

Pending(t) == pc[t] \notin {"idle", "done", "failed", "cancelled"}

(* task.cancel(): the future the task waits for is cancelled if it is      *)
(* pending; the task is thrown CancelledError when it next runs.           *)
CancelFuture(f) == IF f.state = "pending" THEN [state |-> "cancelled", val |-> NoMsg] ELSE f

(* main resumes from stop_event.wait(): the finally clause closes the      *)
(* listener transport, then every pending task is cancelled, and main      *)
(* awaits them.                                                            *)
main_shutdown ==
    /\ shutdown = "signalled"
    /\ shutdown' = "closed"
    /\ pc' = [t \in Tasks |-> IF Pending(t) THEN "cancelling" ELSE pc[t]]
    /\ on_response' = [t \in Tasks |->
          IF Pending(t) THEN CancelFuture(on_response[t]) ELSE on_response[t]]
    /\ timer' = [t \in Tasks |-> IF Pending(t) THEN 0 ELSE timer[t]]
    /\ reqs' = [t \in Tasks |-> IF Pending(t) THEN 0 ELSE reqs[t]]
    /\ ConfigUnchanged
    /\ ParserIdle
    /\ UNCHANGED born
    /\ UNCHANGED <<session, nTasks, data, addr, attempt, endpoints, init_id, sent,
                   accepted, replies, outcome, output>>

(* A cancelled task runs: CancelledError is raised at its await.  No       *)
(* except clause catches it; in handle_query the finally clause closes     *)
(* `transport`, the endpoint of the current attempt if it was created.     *)
handle_cancelled(t) ==
    /\ pc[t] = "cancelling"
    /\ pc' = Set(pc, t, "cancelled")
    /\ endpoints' = Set(endpoints, t, CloseEndpoint(t))
    /\ ConfigUnchanged
    /\ ParserIdle
    /\ UNCHANGED <<session, nTasks, data, addr, attempt, timer, on_response, reqs,
                   init_id, sent, accepted, replies, outcome, output, shutdown,
                   born>>

----------------------------------------------------------------------------
(* Time.  A task that can run does so before time advances; a wait with a  *)
(* deadline does not outlast it.                                           *)

Timed(t) == pc[t] \in {"sleep", "waiting", "dohwait", "backoff"}

Urgent(t) ==
    \/ pc[t] \in {"ready", "cancelling"}
    \/ pc[t] = "sleep" /\ timer[t] >= DEBUG_SLEEP
    \/ pc[t] = "waiting" /\ (Done(on_response[t]) \/ timer[t] >= TIMEOUT)
    \/ pc[t] = "dohwait" /\ HasDeadline /\ timer[t] >= TIMEOUT
    \/ pc[t] = "backoff" /\ timer[t] >= BACKOFF

Tick ==
    /\ \E t \in Tasks : Timed(t)
    /\ \A t \in Tasks : ~Urgent(t)
    /\ \A t \in Tasks : Timed(t) => timer[t] < MaxWait
    /\ timer' = [t \in Tasks |-> IF Timed(t) THEN timer[t] + 1 ELSE timer[t]]
    /\ ConfigUnchanged
    /\ ParserIdle
    /\ NotStopping
    /\ UNCHANGED <<shutdown, born>>
    /\ UNCHANGED <<session, nTasks, data, addr, pc, attempt, on_response,
                   endpoints, reqs, init_id, sent, accepted, replies, outcome,
                   output>>

----------------------------------------------------------------------------
(* The decoder of part1, step by step. *)

(* Python. *)

(* What b[i] yields when i is out of range: IndexError. *)
NoByte == -1

PyIndex_zero_past_end(b, i) ==
    IF -Len(b) <= i /\ i < Len(b)
       THEN b[(IF i < 0 THEN i + Len(b) ELSE i) + 1]
       ELSE 0

(* b[i]: a negative index counts from the end. *)
PyIndex(b, i) ==
    IF -Len(b) <= i /\ i < Len(b)
       THEN b[(IF i < 0 THEN i + Len(b) ELSE i) + 1]
       ELSE NoByte

(* An end of a slice: counted from the end when negative, and clamped. *)
Clamp(b, i) ==
    IF i < 0 THEN (IF i + Len(b) < 0 THEN 0 ELSE i + Len(b))
    ELSE IF i > Len(b) THEN Len(b) ELSE i

(* b[i:j]: never an error, possibly shorter than j - i. *)
PySlice(b, i, j) ==
    IF Clamp(b, i) >= Clamp(b, j) THEN <<>> ELSE SubSeq(b, Clamp(b, i) + 1, Clamp(b, j))

(* struct.unpack("!H", s)[0] of two bytes. *)
unpack_H(s) == s[1] * 256 + s[2]

(* bytes.decode() raises on a byte that no UTF-8 text holds.  The samples  *)
(* have ASCII and the bytes 0xC0, 0xC1 and 0xFF, which never occur in      *)
(* UTF-8, so a label decodes exactly when it is ASCII.                     *)
Utf8Error(s) == \E i \in DOMAIN s : s[i] >= 128

(* ".".join(name), "." being byte 46. *)
RECURSIVE join(_)
join(name) ==
    IF name = <<>> THEN <<>>
    ELSE IF Len(name) = 1 THEN name[1]
    ELSE name[1] \o <<46>> \o join(Tail(name))

(* sys.getrecursionlimit(): the frames a thread may stack; the ones under  *)
(* parse_name are not counted.                                             *)
RecursionLimit == 1000

DNS_TYPES ==
    (1 :> "A") @@ (2 :> "NS") @@ (5 :> "CNAME") @@ (6 :> "SOA") @@ (12 :> "PTR")
    @@ (15 :> "MX") @@ (16 :> "TXT") @@ (28 :> "AAAA") @@ (33 :> "SRV")
    @@ (35 :> "NAPTR") @@ (38 :> "A6") @@ (39 :> "DNAME") @@ (41 :> "OPT")
    @@ (43 :> "DS") @@ (46 :> "RRSIG") @@ (47 :> "NSEC") @@ (48 :> "DNSKEY")
    @@ (255 :> "ANY")

Exceptions ==
    {"IndexError", "struct.error", "UnicodeDecodeError", "RecursionError", "KeyError"}

(* `(bytes >> 6) & 0b11 == 0b11` *)
is_pointer(bytes) == (bytes \div 64) % 4 = 3

(* The proxy takes no step while a datagram is decoded. *)
ProxyIdle ==
    UNCHANGED <<variant, doh, debug, session, nTasks, data, addr, pc, attempt,
                timer, on_response, endpoints, reqs, init_id, sent, accepted,
                replies, outcome, output, shutdown, born>>

(* An exception leaves the constructor. *)
Raise(e) ==
    /\ parser' = e
    /\ UNCHANGED <<query_head, query_body, frames, ret, posn, section, records, trail>>

(* DNSQueryParser.__init__ of part1: split the datagram, then parse():     *)
(* unpack the four counts, which fails on a header that is cut.            *)
DNSQueryParser_init ==
    /\ parser = "new"
    /\ variant = "part1"
    /\ query_body' = Body(wire)
    /\ IF ~wire.head
          THEN /\ parser' = "struct.error"
               /\ UNCHANGED query_head
          ELSE /\ parser' = "loop"
               /\ query_head' = wire.counts
    /\ UNCHANGED <<wire, frames, ret, posn, section, records, trail>>
    /\ ProxyIdle

(* name.to_unicode() of dnspython: the name with its final dot. *)
to_unicode(owner) == IF owner = <<>> THEN <<46>> ELSE join(owner) \o <<46>>

(* len(rdata.to_wire()): the RDATA written again, its names in full. *)
rdata_size(r) == r.full

(* parse_rrset_lst / parse_section / parse_dns_section over the sections   *)
(* of the message dns.message.from_wire returns; write_to_file adds the    *)
(* OPT record, which dnspython keeps apart, to the additional section.     *)
(* The samples have no two records of one name and type.                   *)
parse_dns_section(w) ==
    << [k \in 1 .. Len(w.qd) |->
           [name |-> to_unicode(w.qd[k].owner), type |-> DNS_TYPES[w.qd[k].type]]],
       [k \in 1 .. Len(w.rr[1]) |->
           [name |-> to_unicode(w.rr[1][k].owner), type |-> DNS_TYPES[w.rr[1][k].type],
            size |-> rdata_size(w.rr[1][k])]],
       [k \in 1 .. Len(w.rr[2]) |->
           [name |-> to_unicode(w.rr[2][k].owner), type |-> DNS_TYPES[w.rr[2][k].type],
            size |-> rdata_size(w.rr[2][k])]],
       [k \in 1 .. Len(w.rr[3]) |->
           [name |-> to_unicode(w.rr[3][k].owner), type |-> DNS_TYPES[w.rr[3][k].type],
            size |-> rdata_size(w.rr[3][k])]] >>

(* The types of the message, in order. *)
TypesOf(w) ==
    {w.qd[k].type : k \in DOMAIN w.qd}
        \cup UNION {{w.rr[s][k].type : k \in DOMAIN w.rr[s]} : s \in 1 .. 3}

(* DNSQueryParser.__init__ of part2, part2b and part3 on a well-formed     *)
(* message: from_wire, then the section lists; DNS_TYPES[rrset.rdtype]     *)
(* raises KeyError on a type it lacks.                                     *)
from_wire ==
    /\ parser = "new"
    /\ variant # "part1"
    /\ wire.rfc
    /\ query_head' = wire.counts
    /\ query_body' = Body(wire)
    /\ IF TypesOf(wire) \subseteq DOMAIN DNS_TYPES
          THEN /\ records' = parse_dns_section(wire)
               /\ parser' = "parsed"
          ELSE /\ parser' = "KeyError"
               /\ UNCHANGED records
    /\ UNCHANGED <<wire, frames, ret, posn, section, trail>>
    /\ ProxyIdle

(* The frame of the innermost call of parse_name. *)
Top == frames[Len(frames)]

Pop == SubSeq(frames, 1, Len(frames) - 1)

(* parse_name runs and no call has returned yet. *)
InName == parser = "name" /\ frames # <<>> /\ ~ret.set

(* `label_len = self.query_body[posn]` *)
label_len == PyIndex(query_body, Top.posn)

(* What the decoder read at the top frame: the offset, the length byte and *)
(* the offset a pointer leads to.                                          *)
Step(to) == [at |-> Top.posn, len |-> label_len, to |-> to]

(* parse_questions / parse_records: the next iteration calls parse_name.   *)
parse_name_call ==
    /\ parser = "loop"
    /\ Len(records[section]) < query_head[section]
    /\ parser' = "name"
    /\ frames' = <<[posn |-> posn, name |-> <<>>]>>
    /\ ret' = NoRet
    /\ trail' = <<>>
    /\ UNCHANGED <<wire, query_head, query_body, posn, section, records>>
    /\ ProxyIdle

(* The loop of a section is over: parse() goes on with the next section. *)
next_section ==
    /\ parser = "loop"
    /\ Len(records[section]) = query_head[section]
    /\ section < 4
    /\ section' = section + 1
    /\ UNCHANGED <<wire, query_head, query_body, frames, ret, posn, records,
                   parser, trail>>
    /\ ProxyIdle

(* parse() returns the four lists. *)
parse_return ==
    /\ parser = "loop"
    /\ Len(records[section]) = query_head[section]
    /\ section = 4
    /\ parser' = "parsed"
    /\ UNCHANGED <<wire, query_head, query_body, frames, ret, posn, section,
                   records, trail>>
    /\ ProxyIdle

(* query_body[posn] with posn past the end. *)
parse_name_index_error ==
    /\ InName
    /\ label_len = NoByte
    /\ Raise("IndexError")
    /\ UNCHANGED wire
    /\ ProxyIdle

(* The zero label: `return (posn + 1, ".".join(name))`. *)
parse_name_zero ==
    /\ InName
    /\ label_len = 0
    /\ ret' = [set |-> TRUE, posn |-> Top.posn + 1, name |-> join(Top.name)]
    /\ frames' = Pop
    /\ trail' = Append(trail, Step(Top.posn))
    /\ UNCHANGED <<wire, query_head, query_body, posn, section, records, parser>>
    /\ ProxyIdle

(* A length byte is_pointer rejects: the label is unpacked from the slice  *)
(* after it (struct.error when the slice is shorter), decoded, appended.   *)
parse_name_label ==
    /\ InName
    /\ label_len \notin {NoByte, 0}
    /\ ~is_pointer(label_len)
    /\ LET label_val == PySlice(query_body, 1 + Top.posn, 1 + Top.posn + label_len) IN
       IF Len(label_val) # label_len THEN Raise("struct.error")
       ELSE IF Utf8Error(label_val) THEN Raise("UnicodeDecodeError")
       ELSE /\ frames' = [frames EXCEPT ![Len(frames)] =
                    [posn |-> Top.posn + 1 + label_len,
                     name |-> Append(Top.name, label_val)]]
            /\ trail' = Append(trail, Step(Top.posn))
            /\ UNCHANGED <<query_head, query_body, ret, posn, section, records, parser>>
    /\ UNCHANGED wire
    /\ ProxyIdle

(* A pointer: parse_name calls itself at the offset the 14 bits give, less *)
(* the 12 bytes of the header.                                             *)
parse_name_pointer ==
    /\ InName
    /\ label_len # NoByte
    /\ is_pointer(label_len)
    /\ LET s == PySlice(query_body, Top.posn, Top.posn + 2) IN
       IF Len(s) # 2 THEN Raise("struct.error")
       ELSE IF Len(frames) >= RecursionLimit THEN Raise("RecursionError")
       ELSE LET ptr_offset == (unpack_H(s) % 16384) - 12 IN
            /\ frames' = Append(frames, [posn |-> ptr_offset, name |-> <<>>])
            /\ trail' = Append(trail, Step(ptr_offset))
            /\ UNCHANGED <<query_head, query_body, ret, posn, section, records, parser>>
    /\ UNCHANGED wire
    /\ ProxyIdle

(* parse_name_unwind returning the cursor of the call it made at the       *)
(* pointer's target instead of its own.                                    *)
parse_name_unwind_target_posn ==
    /\ parser = "name"
    /\ frames # <<>>
    /\ ret.set
    /\ ret' = [set |-> TRUE, posn |-> ret.posn,
               name |-> join(Append(Top.name, ret.name))]
    /\ frames' = Pop
    /\ UNCHANGED <<wire, query_head, query_body, posn, section, records, parser, trail>>
    /\ ProxyIdle

(* The call at a pointer returned: `name.append(ref); break`, then         *)
(* `return (posn + 2, ".".join(name))`.                                    *)
parse_name_unwind ==
    /\ parser = "name"
    /\ frames # <<>>
    /\ ret.set
    /\ ret' = [set |-> TRUE, posn |-> Top.posn + 2,
               name |-> join(Append(Top.name, ret.name))]
    /\ frames' = Pop
    /\ UNCHANGED <<wire, query_head, query_body, posn, section, records, parser, trail>>
    /\ ProxyIdle

(* parse_questions after parse_name: parse_type, append, skip the class. *)
parse_questions_append ==
    /\ parser = "name"
    /\ frames = <<>>
    /\ ret.set
    /\ section = 1
    /\ LET s == PySlice(query_body, ret.posn, ret.posn + 2) IN
       IF Len(s) # 2 THEN Raise("struct.error")
       ELSE IF unpack_H(s) \notin DOMAIN DNS_TYPES THEN Raise("KeyError")
       ELSE /\ records' = [records EXCEPT ![1] =
                    Append(@, [name |-> ret.name, type |-> DNS_TYPES[unpack_H(s)]])]
            /\ posn' = ret.posn + 2 + 2
            /\ parser' = "loop"
            /\ UNCHANGED <<query_head, query_body, frames, ret, section, trail>>
    /\ UNCHANGED wire
    /\ ProxyIdle

(* parse_records after parse_name: parse_type, skip class and TTL, unpack  *)
(* RDLENGTH, append, skip the RDATA.                                       *)
parse_records_append ==
    /\ parser = "name"
    /\ frames = <<>>
    /\ ret.set
    /\ section > 1
    /\ LET s == PySlice(query_body, ret.posn, ret.posn + 2)
           at == ret.posn + 2 + 6
           l == PySlice(query_body, at, at + 2) IN
       IF Len(s) # 2 THEN Raise("struct.error")
       ELSE IF unpack_H(s) \notin DOMAIN DNS_TYPES THEN Raise("KeyError")
       ELSE IF Len(l) # 2 THEN Raise("struct.error")
       ELSE /\ records' = [records EXCEPT ![section] =
                    Append(@, [name |-> ret.name, type |-> DNS_TYPES[unpack_H(s)],
                               size |-> unpack_H(l)])]
            /\ posn' = at + 2 + unpack_H(l)
            /\ parser' = "loop"
            /\ UNCHANGED <<query_head, query_body, frames, ret, section, trail>>
    /\ UNCHANGED wire
    /\ ProxyIdle

(* A datagram of Samples is handed to the constructor of a variant; the    *)
(* three that use dnspython get the well-formed ones.                      *)
InitParse ==
    /\ variant \in Variants
    /\ doh = FALSE
    /\ debug = FALSE
    /\ session = "None"
    /\ nTasks = 0
    /\ data = [t \in Tasks |-> NoMsg]
    /\ addr = [t \in Tasks |-> "none"]
    /\ pc = [t \in Tasks |-> "idle"]
    /\ attempt = [t \in Tasks |-> 0]
    /\ timer = [t \in Tasks |-> 0]
    /\ on_response = [t \in Tasks |-> NoFuture]
    /\ endpoints = [t \in Tasks |-> {}]
    /\ reqs = [t \in Tasks |-> 0]
    /\ init_id = [t \in Tasks |-> 0]
    /\ sent = [t \in Tasks |-> <<>>]
    /\ accepted = [t \in Tasks |-> <<>>]
    /\ replies = [t \in Tasks |-> <<>>]
    /\ outcome = [t \in Tasks |-> <<>>]
    /\ output = NoSummary
    /\ shutdown = "running"
    /\ born = [t \in Tasks |-> "none"]
    /\ wire \in Samples
    /\ variant # "part1" => wire.rfc
    /\ parser = "new"
    /\ query_head = <<0, 0, 0, 0>>
    /\ query_body = <<>>
    /\ frames = <<>>
    /\ ret = NoRet
    /\ posn = 0
    /\ section = 1
    /\ records = NoRecords
    /\ trail = <<>>

NextParse ==
    \/ DNSQueryParser_init
    \/ from_wire
    \/ parse_name_call
    \/ next_section
    \/ parse_return
    \/ parse_name_index_error
    \/ parse_name_zero
    \/ parse_name_label
    \/ parse_name_pointer
    \/ parse_name_unwind
    \/ parse_questions_append
    \/ parse_records_append

SpecParse == InitParse /\ [][NextParse]_vars

----------------------------------------------------------------------------

Next ==
    \/ \E in \in Inbound : datagram_received(in[1], in[2])
    \/ \E t \in Tasks : handle_query_start(t)
    \/ \E t \in Tasks : handle_query_wake(t)
    \/ \E t \in Tasks : endpoint_created(t)
    \/ \E t \in Tasks : endpoint_failed(t)
    \/ \E t \in Tasks, k \in 0 .. ATTEMPTS, kind \in AnswerKinds :
          Upstream_datagram_received(t, k, kind)
    \/ \E t \in Tasks : handle_query_response(t)
    \/ \E t \in Tasks : handle_query_timeout(t)
    \/ \E t \in Tasks : handle_doh_query_start(t)
    \/ \E t \in Tasks : handle_doh_query_wake(t)
    \/ \E t \in Tasks, n \in 1 .. MaxQuestions : \E as \in [1 .. n -> HttpAnswers] :
          handle_doh_query_responses(t, as)
    \/ \E t \in Tasks, exc \in {"ConnectionError", "ConnectTimeout", "ReadTimeout"} :
          handle_doh_query_exception(t, exc)
    \/ \E t \in Tasks : handle_doh_query_backoff(t)
    \/ sigint
    \/ main_shutdown
    \/ \E t \in Tasks : handle_cancelled(t)
    \/ Tick

Spec == Init /\ [][Next]_vars

----------------------------------------------------------------------------
(* Vocabulary of the properties *)

Last(q) == q[Len(q)]

UdpTask(t) == ~doh /\ pc[t] # "idle"

DohTask(t) == doh /\ pc[t] # "idle"

(* Attempt k of task t completed its future with an upstream datagram. *)
Received(t, k) == \E j \in DOMAIN accepted[t] : accepted[t][j].attempt = k

(* Every one of the three attempts of task t ended by its deadline. *)
AllTimedOut(t) ==
    /\ Len(outcome[t]) = ATTEMPTS
    /\ \A i \in DOMAIN outcome[t] : outcome[t][i].how = "timeout"

(* Some attempt of task t got every response of the upstream and decoded it. *)
Succeeded(t) == \E i \in DOMAIN outcome[t] : outcome[t][i].how = "reply"

----------------------------------------------------------------------------
(* C1. In UDP-relay mode a forwarding task sends at most one datagram to   *)
(* the client: exactly one once it has ended if some attempt received an   *)
(* upstream datagram within its deadline, none if all three timed out.     *)
C1_OneReplyPerUdpQuery ==
    \A t \in Tasks : UdpTask(t) =>
        /\ Len(replies[t]) <= 1
        /\ (Ended(t) /\ (\E k \in 0 .. ATTEMPTS - 1 : Received(t, k))
               => Len(replies[t]) = 1)
        /\ (AllTimedOut(t) => Len(replies[t]) = 0)

(* Each of the three attempts of task t failed. *)
TotalFailure(t) ==
    /\ Ended(t)
    /\ Len(outcome[t]) = ATTEMPTS
    /\ ~Succeeded(t)

(* C2. In DoH mode a forwarding task never sends two replies, whatever the *)
(* number of questions of the query; once it has ended it has sent exactly *)
(* one reply if an attempt succeeded and none if all three failed.         *)
C2_OneReplyPerDohQuery ==
    \A t \in Tasks : DohTask(t) =>
        /\ Len(replies[t]) <= 1
        /\ (Ended(t) /\ Succeeded(t) => Len(replies[t]) = 1)
        /\ (TotalFailure(t) => Len(replies[t]) = 0)

(* C3 as stated. In both modes and for any upstream response, the          *)
(* transaction id of every reply equals that of the client's query.        *)
C3_ReplyIdIsQueryId ==
    \A t \in Tasks : \A i \in DOMAIN replies[t] :
        replies[t][i].payload.id = data[t].id

(* The upstream datagram that completed attempt k of task t carries the id *)
(* of the query sent to it.                                                *)
UpstreamEchoesId(t, k) ==
    \A j \in DOMAIN accepted[t] :
        accepted[t][j].attempt = k => accepted[t][j].msg.id = data[t].id

(* C3 as amended. In DoH mode the transaction id of every reply equals     *)
(* that of the client's query, for any upstream response; in UDP-relay     *)
(* mode it does whenever the upstream datagram relayed carries the id of   *)
(* the query.                                                              *)
C3_ReplyIdIsQueryId_Amended ==
    \A t \in Tasks : \A i \in DOMAIN replies[t] :
        (doh \/ UpstreamEchoesId(t, replies[t][i].attempt))
            => replies[t][i].payload.id = data[t].id

(* Two concurrent DoH tasks whose queries bear different ids have both     *)
(* replied, from upstream bodies that bear id 0.                           *)
C3_Witness ==
    /\ doh
    /\ \A t \in Tasks : replies[t] # <<>>
    /\ data[1].id # data[2].id

(* C4. In UDP-relay mode what a task transmits upstream is its client      *)
(* datagram, and what it sends back is the upstream datagram that the same *)
(* task received in that attempt, addressed to the address its query came  *)
(* from.                                                                   *)
C4_RelaysUnchanged ==
    \A t \in Tasks : UdpTask(t) =>
        /\ \A i \in DOMAIN sent[t] : sent[t][i].payload = data[t]
        /\ \A i \in DOMAIN replies[t] :
              /\ replies[t][i].addr = addr[t]
              /\ \E j \in DOMAIN accepted[t] :
                    /\ accepted[t][j].attempt = replies[t][i].attempt
                    /\ accepted[t][j].endpoint = replies[t][i].attempt
                    /\ accepted[t][j].msg = replies[t][i].payload

(* Two UDP tasks of different clients have both relayed an answer, and the *)
(* answers differ.                                                         *)
C4_Witness ==
    /\ ~doh
    /\ \A t \in Tasks : replies[t] # <<>>
    /\ addr[1] # addr[2]
    /\ replies[1][1].payload # replies[2][1].payload

(* Task t has begun an attempt: it is in the loop or past it. *)
InLoop(t) == pc[t] \in {"creating", "waiting", "done", "failed"}

(* The transmissions of task t are at most three, in attempt order and at  *)
(* most one per attempt.                                                   *)
TransmissionsInOrder(t) ==
    /\ Len(sent[t]) <= ATTEMPTS
    /\ \A i \in DOMAIN sent[t] : sent[t][i].attempt = i - 1

(* An attempt of task t past the first began only after the one before     *)
(* reached its 3-second deadline without a datagram.                       *)
RetryOnlyAfterDeadline(t) ==
    \A k \in 1 .. attempt[t] :
        /\ Len(outcome[t]) >= k
        /\ outcome[t][k].attempt = k - 1
        /\ outcome[t][k].how = "timeout"
        /\ outcome[t][k].waited = TIMEOUT
        /\ ~Received(t, k - 1)

(* A reply of task t was sent in the attempt of its last transmission, and *)
(* the task ended with it: nothing is transmitted after a reply.           *)
NoTransmissionAfterReply(t) ==
    \A i \in DOMAIN replies[t] :
        /\ Ended(t)
        /\ Len(sent[t]) = replies[t][i].attempt + 1

(* C5 as stated. In UDP-relay mode a task transmits the query at most      *)
(* three times, exactly once in each attempt it has begun (the current one *)
(* excepted while its endpoint is being created); an attempt past the      *)
(* first starts only after the one before reached its deadline with no     *)
(* datagram; nothing is transmitted after a reply.                         *)
C5_OneTransmissionPerAttempt ==
    \A t \in Tasks : UdpTask(t) =>
        /\ TransmissionsInOrder(t)
        /\ (InLoop(t) /\ pc[t] # "creating" => Len(sent[t]) = attempt[t] + 1)
        /\ (pc[t] = "creating" => Len(sent[t]) = attempt[t])
        /\ RetryOnlyAfterDeadline(t)
        /\ NoTransmissionAfterReply(t)

(* Task t ended in an attempt whose endpoint could not be created. *)
EndpointFailed(t) ==
    outcome[t] # <<>> /\ Last(outcome[t]).how = "oserror"

(* C5 as amended. As stated, but an attempt whose endpoint cannot be       *)
(* created transmits nothing (and ends the task): a task transmits exactly *)
(* once in every attempt whose endpoint was created and never otherwise.   *)
C5_OneTransmissionPerAttempt_Amended ==
    \A t \in Tasks : UdpTask(t) =>
        /\ TransmissionsInOrder(t)
        /\ (InLoop(t) /\ pc[t] # "creating" /\ ~EndpointFailed(t)
               => Len(sent[t]) = attempt[t] + 1)
        /\ (pc[t] = "creating" \/ EndpointFailed(t) => Len(sent[t]) = attempt[t])
        /\ RetryOnlyAfterDeadline(t)
        /\ NoTransmissionAfterReply(t)

(* A task transmitted three times and replied in its third attempt, and   *)
(* another ended in its second attempt for want of an endpoint, having     *)
(* transmitted once.                                                       *)
C5_Witness ==
    \E t, u \in Tasks :
        /\ UdpTask(t) /\ UdpTask(u)
        /\ Len(sent[t]) = ATTEMPTS
        /\ replies[t] # <<>>
        /\ EndpointFailed(u) /\ attempt[u] = 1 /\ Len(sent[u]) = 1

(* C6. In UDP-relay mode every upstream datagram received within an        *)
(* attempt's deadline is forwarded to the client, also when the proxy      *)
(* cannot decode it: once the task has ended, the datagram was sent.       *)
C6_UndecodableStillForwarded ==
    \A t \in Tasks : UdpTask(t) /\ Ended(t) =>
        \A j \in DOMAIN accepted[t] :
            \E i \in DOMAIN replies[t] : replies[t][i].payload = accepted[t][j].msg

(* C7. In DoH mode an attempt ended by a timeout of its HTTPS request is   *)
(* followed by another attempt unless it was the third: a task never ends  *)
(* on a timeout of its first or second attempt.                            *)
C7_TimeoutIsRetried ==
    \A t \in Tasks : DohTask(t) /\ Ended(t) /\ outcome[t] # <<>> =>
        (Last(outcome[t]).how \in {"ReadTimeout", "ConnectTimeout"}
            => Last(outcome[t]).attempt = ATTEMPTS - 1)

(* C8. In DoH mode an attempt whose response body does not decode sends no *)
(* reply and is followed by another attempt unless it was the third.       *)
C8_DecodeFailureIsRetried ==
    \A t \in Tasks : DohTask(t) /\ Ended(t) /\ outcome[t] # <<>> =>
        (Last(outcome[t]).how = "decode_error"
            => Last(outcome[t]).attempt = ATTEMPTS - 1)

(* C9. In DoH mode no reply is built from a response whose status is not   *)
(* 200, and an attempt answered with status 500 is followed by another     *)
(* attempt unless it was the third.                                        *)
C9_Non200IsTransportFailure ==
    \A t \in Tasks : DohTask(t) =>
        /\ \A i \in DOMAIN replies[t] : replies[t][i].status = 200
        /\ (Ended(t) /\ outcome[t] # <<>> /\ Last(outcome[t]).status = 500
               => Last(outcome[t]).attempt = ATTEMPTS - 1)

(* C10. In DoH mode no attempt waits for its HTTPS requests beyond the     *)
(* 3-second deadline, and no task makes more than three attempts.          *)
C10_DohAttemptMeetsDeadline ==
    \A t \in Tasks : DohTask(t) =>
        /\ (pc[t] = "dohwait" => timer[t] <= TIMEOUT)
        /\ attempt[t] < ATTEMPTS

(* C11. A task sleeps the 1-second delay between two attempts only in DoH  *)
(* mode, only after an attempt that failed on a connection error and not   *)
(* on a timeout, and only when another attempt follows: after a timeout in *)
(* either mode, and after any failure in UDP-relay mode, no task is ever   *)
(* in the delay.                                                           *)
C11_DelayOnlyAfterConnectionFailure ==
    \A t \in Tasks : pc[t] = "backoff" =>
        /\ doh
        /\ outcome[t] # <<>>
        /\ Last(outcome[t]).how = "ConnectionError"
        /\ MoreAttempts(t)

(* C12. In UDP-relay mode an attempt that fails on a network error other   *)
(* than a timeout is followed by another attempt unless it was the third:  *)
(* a task never ends on such an error in its first or second attempt.      *)
C12_UdpNetworkErrorIsRetried ==
    \A t \in Tasks : UdpTask(t) /\ Ended(t) /\ outcome[t] # <<>> =>
        (Last(outcome[t]).how = "oserror"
            => Last(outcome[t]).attempt = ATTEMPTS - 1)

(* C13 as stated. In both modes and for every upstream response, every     *)
(* reply has the QR bit and the RA bit set.                                *)
C13_ReplyHasQrAndRa ==
    \A t \in Tasks : \A i \in DOMAIN replies[t] :
        replies[t][i].payload.qr = 1 /\ replies[t][i].payload.ra = 1

(* The upstream datagram that completed attempt k of task t has QR and RA  *)
(* set.                                                                    *)
UpstreamSetsQrAndRa(t, k) ==
    \A j \in DOMAIN accepted[t] :
        accepted[t][j].attempt = k
            => accepted[t][j].msg.qr = 1 /\ accepted[t][j].msg.ra = 1

(* C13 as amended. In DoH mode every reply has the QR bit and the RA bit   *)
(* set, for every upstream response; in UDP-relay mode the reply is the    *)
(* upstream datagram, and has them set whenever that datagram has.         *)
C13_ReplyHasQrAndRa_Amended ==
    \A t \in Tasks : \A i \in DOMAIN replies[t] :
        (doh \/ UpstreamSetsQrAndRa(t, replies[t][i].attempt))
            => replies[t][i].payload.qr = 1 /\ replies[t][i].payload.ra = 1

(* A DoH task has replied in an attempt that the upstream answered with RA *)
(* clear.                                                                  *)
C13_Witness ==
    \E t \in Tasks :
        /\ DohTask(t)
        /\ replies[t] # <<>>
        /\ \E i \in DOMAIN replies[t] : replies[t][i].upstream.ra = 0

(* C14. In DoH mode the question section of every reply is, byte for byte, *)
(* the question section of the client's query, whatever question section   *)
(* the upstream response carries.                                          *)
C14_QuestionSectionVerbatim ==
    \A t \in Tasks : DohTask(t) =>
        \A i \in DOMAIN replies[t] : replies[t][i].payload.qd = data[t].qd

(* The HTTPS requests issued so far: the transmissions of the DoH tasks. *)
RECURSIVE RequestsIssued(_)
RequestsIssued(n) ==
    IF n = 0 \/ ~doh THEN 0 ELSE Len(sent[n]) + RequestsIssued(n - 1)

(* The requests.Session objects created so far.  part3 keeps the one       *)
(* datagram_received made in self.session and issues every request through *)
(* it (session_.get); part2 and part2b call requests.get, which makes a    *)
(* session of its own for each call and closes it.                         *)
SessionsCreated ==
    IF variant = "part3"
       THEN (IF session = "Session" THEN 1 ELSE 0)
       ELSE RequestsIssued(nTasks)

(* C15. On one proxy at most one HTTPS session is ever created; none is    *)
(* created before the first DoH transaction nor in UDP-relay mode; and     *)
(* every HTTPS request is issued through the one session of the proxy.     *)
C15_OneSharedSession ==
    /\ SessionsCreated <= 1
    /\ (nTasks = 0 \/ ~doh => SessionsCreated = 0)
    /\ (doh /\ RequestsIssued(nTasks) > 0
           => session = "Session" /\ SessionsCreated = 1)

(* Once main has closed the listener: no task is created, every task that  *)
(* was pending has been cancelled and does nothing but end, and no reply   *)
(* was sent with the listener closed.                                      *)
QuietAfterClose ==
    /\ \A t \in Tasks : born[t] # "closed"
    /\ shutdown = "closed" =>
          \A t \in Tasks : pc[t] \in {"idle", "done", "failed", "cancelling", "cancelled"}
    /\ \A t \in Tasks : \A i \in DOMAIN replies[t] :
          replies[t][i].listener # "closed"

(* C16 as stated. No task is created after the termination signal; once   *)
(* the listener is closed every task in flight has been cancelled and only *)
(* ends, and no reply is sent.                                             *)
C16_ShutdownStopsForwarding ==
    /\ \A t \in Tasks : born[t] \in {"none", "running"}
    /\ QuietAfterClose

(* C16 as amended. The listener is closed when main next runs after the    *)
(* signal, and a datagram read in between still creates a task.  Once the  *)
(* listener is closed no task is created, every task in flight (one        *)
(* created after the signal included) has been cancelled and only ends,    *)
(* and no reply is sent.                                                   *)
C16_ShutdownStopsForwarding_Amended ==
    /\ \A t \in Tasks : born[t] \in {"none", "running", "signalled"}
    /\ QuietAfterClose

(* The listener is closed; one task, created after the signal, and         *)
(* another, which was waiting for the upstream, have both been cancelled   *)
(* and have ended without a reply.                                         *)
C16_Witness ==
    /\ shutdown = "closed"
    /\ \E t, u \in Tasks :
          /\ born[t] = "signalled" /\ pc[t] = "cancelled"
          /\ born[u] = "running" /\ pc[u] = "cancelled" /\ sent[u] # <<>>
          /\ replies[t] = <<>> /\ replies[u] = <<>>

(* Task t has finished: it returned, raised, or was cancelled. *)
Finished(t) == pc[t] \in {"done", "failed", "cancelled"}

(* C17. A task has at most one upstream endpoint open, that of its current *)
(* attempt; the endpoint of an attempt is closed before the next attempt   *)
(* begins; and a task that has finished (by a reply, a timeout of its last *)
(* attempt, cancellation or any exception) has no endpoint open.           *)
C17_EndpointsClosed ==
    \A t \in Tasks :
        /\ endpoints[t] \subseteq {attempt[t]}
        /\ (pc[t] = "creating" => endpoints[t] = {})
        /\ (Finished(t) => endpoints[t] = {})

(* In UDP-relay mode one task was cancelled while it waited on its         *)
(* endpoint, the other ended on an exception of the parser after a         *)
(* timeout, and both have finished.                                        *)
C17_Witness ==
    /\ ~doh
    /\ \E t, u \in Tasks :
          /\ pc[t] = "cancelled" /\ sent[t] # <<>>
          /\ pc[u] = "failed" /\ Len(sent[u]) = 2
          /\ Last(outcome[u]).how = "decode_error"

(* C18. An attempt in which the summary could not be written still sends   *)
(* the reply for the response it decoded.                                  *)
C18_SinkFailureDoesNotAbort ==
    \A t \in Tasks : \A i \in DOMAIN outcome[t] :
        outcome[t][i].how = "sink_error"
            => \E j \in DOMAIN replies[t] : replies[t][j].attempt = outcome[t][i].attempt

RECURSIVE SumWaited(_)
(* Seconds the attempts logged in q spent in wait_for before they ended. *)
SumWaited(q) == IF q = <<>> THEN 0 ELSE q[1].waited + SumWaited(Tail(q))

(* C20. A UDP task whose first two transmissions got no answer and whose   *)
(* third got one has, once it has ended, sent one reply, in its third      *)
(* attempt, after at least 2 x 3 seconds of waiting.                       *)
C20_ThirdAttemptAnswered ==
    \A t \in Tasks :
        (/\ UdpTask(t)
         /\ Ended(t)
         /\ ~Received(t, 0)
         /\ ~Received(t, 1)
         /\ Received(t, 2))
            => /\ Len(replies[t]) = 1
               /\ replies[t][1].attempt = 2
               /\ SumWaited(outcome[t]) >= 2 * TIMEOUT

(* C26. In DoH mode every request that carries the query in its `dns`      *)
(* parameter (part2b) carries the bytes of the client query with the id    *)
(* set to 0, the same on every attempt.                                    *)
C26_DnsParamIsQueryWithZeroId ==
    \A t \in Tasks : (variant = "part2b" /\ DohTask(t)) =>
        \A i \in DOMAIN sent[t] : sent[t][i].payload = [data[t] EXCEPT !.id = 0]

(* C28. In UDP-relay mode the first datagram an attempt's endpoint receives *)
(* is the answer: an attempt completes its future at most once, a future    *)
(* that holds an answer keeps it whatever arrives later, and the one reply  *)
(* of the task is the answer its attempt accepted.                         *)
C28_FirstDatagramIsTheAnswer ==
    /\ [](\A t \in Tasks : UdpTask(t) =>
            /\ Len(replies[t]) <= 1
            /\ \A i, j \in DOMAIN accepted[t] :
                  accepted[t][i].attempt = accepted[t][j].attempt => i = j
            /\ \A i \in DOMAIN replies[t] : \E j \in DOMAIN accepted[t] :
                  /\ accepted[t][j].attempt = replies[t][i].attempt
                  /\ accepted[t][j].msg = replies[t][i].payload)
    /\ [][\A t \in Tasks : on_response[t].state = "result"
                              => on_response'[t] = on_response[t]]_vars

(* The future of an attempt holds its answer, the task has not run yet and *)
(* the endpoint is open: a further datagram is delivered to it, and the    *)
(* delivery changes nothing.                                               *)
C28_Witness ==
    \E t \in Tasks :
        /\ UdpTask(t)
        /\ pc[t] = "waiting"
        /\ on_response[t].state = "result"
        /\ on_response[t].val = UpstreamAnswer(data[t], "good")
        /\ attempt[t] \in endpoints[t]
        /\ ENABLED (/\ Upstream_datagram_received(t, attempt[t], "wrongid")
                    /\ UNCHANGED vars)

(* C29. Attempts and tasks are isolated.  At most one endpoint of a task   *)
(* is open, that of its current attempt, so a datagram that completes a    *)
(* future arrived on the endpoint of the attempt that waits; and a reply   *)
(* carries an answer that task's own attempt accepted, for that task's     *)
(* query, sent to that task's client.                                      *)
C29_AttemptsAndTasksIsolated ==
    \A t \in Tasks : UdpTask(t) =>
        /\ endpoints[t] \subseteq {attempt[t]}
        /\ (pc[t] = "creating" => endpoints[t] = {})
        /\ \A j \in DOMAIN accepted[t] : accepted[t][j].endpoint = accepted[t][j].attempt
        /\ \A i \in DOMAIN replies[t] :
              /\ replies[t][i].addr = addr[t]
              /\ \E j \in DOMAIN accepted[t] :
                    /\ accepted[t][j].msg = replies[t][i].payload
                    /\ accepted[t][j].attempt = replies[t][i].attempt
              /\ \E kind \in AnswerKinds :
                    replies[t][i].payload = UpstreamAnswer(data[t], kind)

(* Two tasks run at once for different clients and different queries; the  *)
(* first has closed the endpoint of its first attempt and waits in its     *)
(* second, the second has relayed its answer.                              *)
C29_Witness ==
    /\ nTasks = 2
    /\ ~doh
    /\ data[1] # data[2]
    /\ addr[1] # addr[2]
    /\ pc[1] = "waiting"
    /\ attempt[1] = 1
    /\ endpoints[1] = {1}
    /\ replies[2] # <<>>

(* A step of task t that decodes a response: its attempt ends with a reply, *)
(* or with the summary left unwritten.                                      *)
Decodes(t) ==
    /\ Len(outcome'[t]) = Len(outcome[t]) + 1
    /\ Last(outcome'[t]).how \in {"reply", "sink_error"}

----------------------------------------------------------------------------
(* Vocabulary of the properties of the decoder *)

(* parse_name has returned a name to parse_questions or parse_records. *)
NameDecoded == parser = "name" /\ frames = <<>> /\ ret.set

(* The pointers parse_name followed for the current name. *)
Hops == {i \in DOMAIN trail : is_pointer(trail[i].len)}

(* From offset p on, b has labels up to its end: no zero label and no     *)
(* pointer ends the name.                                                 *)
RECURSIVE Unterminated(_, _)
Unterminated(b, p) ==
    IF p >= Len(b) THEN TRUE
    ELSE IF b[p + 1] = 0 \/ is_pointer(b[p + 1]) THEN FALSE
    ELSE Unterminated(b, p + 1 + b[p + 1])

(* The name record k of section s stands for. *)
Owner(s, k) == IF s = 1 THEN wire.qd[k].owner ELSE wire.rr[s - 1][k].owner

(* C21. A name is decoded only through pointers that lead backwards: a     *)
(* pointer whose target is at or after its own offset makes the decoding   *)
(* fail.                                                                   *)
C21_ForwardPointerRejected ==
    NameDecoded => \A i \in Hops : trail[i].to < trail[i].at

(* C22. A name is decoded only from length bytes whose top bits are 00 (a  *)
(* label) or 11 (a pointer): one with 01 or 10 makes the decoding fail.    *)
C22_BadLabelRejected ==
    NameDecoded => \A i \in DOMAIN trail : trail[i].len \div 64 \in {0, 3}

(* C23. A name is decoded through at most 128 pointers: a longer chain     *)
(* makes the decoding fail.                                                *)
C23_AtMost128Hops ==
    NameDecoded => Cardinality(Hops) <= 128

C25_CompressedEqualsFull ==
    (variant = "part1" /\ wire.rfc) =>
        \A s \in 1 .. 4 : \A k \in DOMAIN records[s] :
            records[s][k].name = join(Owner(s, k))

(* C27. A message that decoded has as many entries in each list as the     *)
(* header counts, and every record's size is its RDLENGTH.                 *)
C27_CountsAndSizes ==
    parser = "parsed" =>
        /\ \A s \in 1 .. 4 : Len(records[s]) = wire.counts[s]
        /\ \A s \in 2 .. 4 : \A k \in DOMAIN records[s] :
              records[s][k].size = wire.rr[s - 1][k].rdlength


(* The offset after the encoding of the name that starts at offset p of b: *)
(* past its zero label, or past its pointer, whatever the pointer leads to. *)
RECURSIVE OwnEnd(_, _)
OwnEnd(b, p) ==
    IF p >= Len(b) THEN p
    ELSE IF b[p + 1] = 0 THEN p + 1
    ELSE IF is_pointer(b[p + 1]) THEN p + 2
    ELSE OwnEnd(b, p + 1 + b[p + 1])

(* Entry k of section s as the message writes it. *)
Written(s, k) == IF s = 1 THEN wire.qd[k] ELSE wire.rr[s - 1][k]

Entries(s) == IF s = 1 THEN DOMAIN wire.qd ELSE DOMAIN wire.rr[s - 1]

(* C31. When part1 has decoded a name its cursor is right after the bytes  *)
(* the name is written with: one past the zero label, or two past the      *)
(* pointer the name ends in, whatever the pointer leads to.  The type and  *)
(* the RDLENGTH appended for every entry are then the ones written after   *)
(* its name.                                                               *)
C31_CursorAfterName ==
    variant = "part1" =>
        /\ NameDecoded =>
              /\ ret.posn = OwnEnd(query_body, posn)
              /\ Len(records[section]) + 1 \in Entries(section) =>
                    ret.posn = posn + Len(Written(section, Len(records[section]) + 1).wname)
        /\ \A s \in 1 .. 4 : \A k \in DOMAIN records[s] \cap Entries(s) :
              /\ records[s][k].type = DNS_TYPES[Written(s, k).type]
              /\ s > 1 => records[s][k].size = Written(s, k).rdlength

(* A second record's name, decoded through several pointers, left the      *)
(* cursor two bytes after where it started.                                *)
C31_Witness ==
    /\ NameDecoded
    /\ section = 2
    /\ Len(records[2]) = 1
    /\ Cardinality(Hops) > 1
    /\ ret.posn = posn + 2

====
